---- MODULE Spec2Model ----
(***************************************************************************)
(* SetMyFit: the score normalizer and the outfit recommendation with its   *)
(* lock enforcement (src/lib/helpers/aiOutfitAnalyzer.ts) and the sliding  *)
(* window rate limiter (src/lib/rateLimiter.ts).                           *)
(*                                                                         *)
(* Numbers of unknown scale (the model's styleScore) are exact rationals   *)
(* n / Scale; the IEEE-754 rounding of a product is not modelled.          *)
(***************************************************************************)
EXTENDS Integers, Sequences, FiniteSets, TLC

VARIABLES
    \* --- normalizeStyleScore applied on its own
    scoreIn,          \* the argument of the last call
    scoreOut,         \* its result
    scorePc,          \* "idle" | "done"
    \* --- generateAIOutfitRecommendation (one call)
    genPc,            \* "idle" | "awaiting" | "returned" | "threw"
    wardrobeItems,    \* the wardrobeItems argument
    lockedItems,      \* context.lockedItems || []
    aiResponse,       \* what the external model answered
    selectedByModel,  \* selectedItems right after the filter of line 370
    missingLockedIds, \* the list computed at line 381
    outfit,           \* result.outfit
    validationScore,  \* result.validationScore
    iterations,       \* result.iterations
    analysisLog,      \* result.analysisLog (tags of the lines pushed)
    genError,         \* the error the call threw
    cachedModel,      \* getTextModel's cachedModel is set
    modelCalls,       \* invocations of model.generateContent
    modelOutcome,     \* "none" | "rejected" | "resolved"
    responseText,     \* result.response.text()
    \* --- analyzeClothingImage
    anPc,             \* "idle" | "backoff" | "fetching" | "returned" | "threw"
    attempt,          \* the loop variable
    anClock,          \* ms since the call began
    fetchStarts,      \* anClock at each fetch issued
    attemptLog,       \* finished attempts: [endedAt, outcome]
    lastError,        \* the loop's lastError, then the error thrown
    anResult,         \* the value returned
    \* --- label normalization
    labelIn,          \* [kind, value]: analysis.category or analysis.material
    labelOut,         \* detectedType or detectedMaterial
    labelPc,          \* "idle" | "done"
    \* --- API handlers and the database
    dbOutfits,        \* ids of the outfits rows
    dbOutfitItems,    \* outfit ids that have outfit_items rows
    dbItems,          \* ids of the clothing_items rows
    dbPatched,        \* clothing_items rows changed by a PATCH
    storageFiles,     \* item ids whose image is in the clothing_images bucket
    outfitItemsPolicy,\* the database restricts outfit_items to the owner
    reqSession,       \* the user of the last request, or NoSession
    reqAccess,        \* the rows the last request read or wrote
    resStatus,        \* the status of the last response
    reqDelete,        \* wardrobe DELETE: "none" | "ok" | "error", the row delete
    reqCleanup,       \* wardrobe DELETE: "none" | "ok" | "failed", the image removal
    \* --- configuration
    apiKeyConfigured, \* config.ai.gemini.apiKey is set
    \* --- rate limiter
    now,              \* Date.now()
    rateLimiters,     \* Map<string, RateLimiterState>, as key -> requests
    limitConfig,      \* the config each key is used with
    calls,            \* every checkRateLimit call made so far, with its result
    \* --- waitForRateLimit callers
    waitPc,           \* per caller: "idle" | "sleeping" | "resolved"
    wakeAt,           \* per caller: when its setTimeout is due
    resolvedAt,       \* per caller: Date.now() when its promise resolved
    \* --- uploadWithProgress (one call)
    upPc,             \* "idle" | "called"
    signal,           \* options.signal: "none" | "clear" | "aborted"
    onProgress,       \* options.onProgress is given
    abortedAtCall,    \* options.signal.aborted held when the call was made
    listening,        \* the 'abort' listener is registered
    xhrState,         \* "unsent" | "sent" | "loaded" | "errored" | "aborted"
    progress,         \* the last percent handed to onProgress, -1 for none
    settled,          \* the flag of finalize
    resolveCalls,     \* how often resolve was called
    promiseState,     \* "pending" | "fulfilled"
    promiseValue,     \* the UploadResult the promise resolved with
    upEvents          \* abort, error and load events in the order they occurred

scoreVars == <<scoreIn, scoreOut, scorePc>>
genVars == <<genPc, wardrobeItems, lockedItems, aiResponse, selectedByModel,
             missingLockedIds, outfit, validationScore, iterations,
             analysisLog, genError, cachedModel, modelCalls, modelOutcome,
             responseText>>
anVars == <<anPc, attempt, anClock, fetchStarts, attemptLog, lastError,
           anResult>>
labelVars == <<labelIn, labelOut, labelPc>>
apiVars == <<dbOutfits, dbOutfitItems, dbItems, dbPatched, storageFiles,
            outfitItemsPolicy, reqSession, reqAccess, resStatus, reqDelete,
            reqCleanup>>
configVars == <<apiKeyConfigured>>
rateVars == <<now, rateLimiters, limitConfig, calls>>
waitVars == <<waitPc, wakeAt, resolvedAt>>
uploadVars == <<upPc, signal, onProgress, abortedAtCall, listening, xhrState,
               progress, settled, resolveCalls, promiseState, promiseValue,
               upEvents>>
vars == <<scoreVars, genVars, rateVars, anVars, labelVars, apiVars, configVars, waitVars, uploadVars>>

----------------------------------------------------------------------------
\* Bounds of the model

\* a score is n / Scale
Scale == 200
\* scores range over [-ScoreBelow, ScoreAbove] in units
ScoreBelow == 3
ScoreAbove == 110

Max(a, b) == IF a >= b THEN a ELSE b
Min(a, b) == IF a <= b THEN a ELSE b

----------------------------------------------------------------------------
\* Score normalizer

Undefined == [kind |-> "undefined", n |-> 0]
Null == [kind |-> "null", n |-> 0]
Num(n) == [kind |-> "num", n |-> n]

Scores == {Undefined, Null} \cup {Num(n) : n \in (0 - ScoreBelow * Scale)..(ScoreAbove * Scale)}

\* Math.floor in place of Math.round
MathRoundFloor(num, den) == num \div den

\* Math.round(num / den): the nearest integer, halves go up
MathRound(num, den) == (2 * num + den) \div (2 * den)

normalizeStyleScoreNoDefault(score) ==
    IF score.n > 0 /\ score.n <= Scale THEN MathRound(score.n * 100, Scale)
    ELSE IF score.n >= Scale /\ score.n <= 10 * Scale THEN MathRound(score.n * 10, Scale)
    ELSE Max(0, Min(100, MathRound(score.n, Scale)))

normalizeStyleScoreNoClamp(score) ==
    IF score.kind \in {"undefined", "null"} THEN 50
    ELSE IF score.n > 0 /\ score.n <= Scale THEN MathRound(score.n * 100, Scale)
    ELSE IF score.n >= Scale /\ score.n <= 10 * Scale THEN MathRound(score.n * 10, Scale)
    ELSE MathRound(score.n, Scale)

normalizeStyleScoreRatingFirst(score) ==
    IF score.kind \in {"undefined", "null"} THEN 50
    ELSE IF score.n >= Scale /\ score.n <= 10 * Scale THEN MathRound(score.n * 10, Scale)
    ELSE IF score.n > 0 /\ score.n <= Scale THEN MathRound(score.n * 100, Scale)
    ELSE Max(0, Min(100, MathRound(score.n, Scale)))

normalizeStyleScore(score) ==
    IF score.kind \in {"undefined", "null"} THEN 50
    ELSE IF score.n > 0 /\ score.n <= Scale THEN MathRound(score.n * 100, Scale)
    ELSE IF score.n >= Scale /\ score.n <= 10 * Scale THEN MathRound(score.n * 10, Scale)
    ELSE Max(0, Min(100, MathRound(score.n, Scale)))

ScoreInit ==
    /\ scoreIn = Undefined
    /\ scoreOut = 0
    /\ scorePc = "idle"

Normalize ==
    /\ scorePc = "idle"
    /\ \E s \in Scores :
        /\ scoreIn' = s
        /\ scoreOut' = normalizeStyleScore(s)
    /\ scorePc' = "done"
    /\ UNCHANGED <<genVars, rateVars, anVars, labelVars, apiVars,
                   configVars, waitVars, uploadVars>>

----------------------------------------------------------------------------
\* Outfit recommendation: inputs

\* items of a wardrobe
MaxWardrobe == 3
\* entries of context.lockedItems
MaxLocked == 2

\* two of ALLOWED_TYPES
ItemTypes == {"Top", "Bottom"}

SeqsUpTo(S, n) == UNION {[1..k -> S] : k \in 0..n}

\* Wardrobe rows carry distinct ids (the table's primary key); ids are opaque,
\* so the item at position i is given id i, and the id lists of the caller
\* and of the model range over every order, repetition and unknown id.
Wardrobes ==
    {[i \in 1..Len(ts) |-> [id |-> i, type |-> ts[i]]] : ts \in SeqsUpTo(ItemTypes, MaxWardrobe)}

\* String(item.id)
String(id) == ToString(id)

\* the id strings a caller or the model may send; a wardrobe of fewer than
\* MaxWardrobe items holds no item for the last of them
IdStrings == {String(i) : i \in 1..MaxWardrobe}

\* the ids of S listed in increasing order
RECURSIVE Listing(_)
Listing(S) ==
    IF S = {} THEN <<>>
    ELSE LET m == CHOOSE i \in S : \A j \in S : i <= j
         IN  <<String(m)>> \o Listing(S \ {m})

\* The model's selectedItemIds.  The code reads the array through includes()
\* alone, so one listing of every set of ids stands for all its orders, and
\* the same listing with its first id repeated for the arrays with repeats.
SelectedIdLists ==
    LET lists == {Listing(S) : S \in SUBSET (1..MaxWardrobe)}
    IN  lists \cup {<<l[1]>> \o l : l \in lists \ {<<>>}}

\* aiResponse.reasoning and its styleScore: no reasoning object, a reasoning
\* object without styleScore, with null, with a rating and with a fraction
ReasoningOptions ==
    {<<"missing", Undefined>>, <<"object", Undefined>>, <<"object", Null>>,
     <<"object", Num(8 * Scale)>>, <<"object", Num(Scale \div 2)>>}

Response(parse, idsKind, ids, reasoning, styleScore) ==
    [parse |-> parse, idsKind |-> idsKind, selectedItemIds |-> ids,
     reasoning |-> reasoning, styleScore |-> styleScore]

\* what result.response.text() can hold: text JSON.parse rejects, an object
\* whose selectedItemIds is missing or no array, or a well-formed answer
Responses ==
    {Response("syntaxError", "missing", <<>>, "missing", Undefined),
     Response("ok", "missing", <<>>, "object", Num(8 * Scale)),
     Response("ok", "notArray", <<>>, "object", Num(8 * Scale)),
     Response("ok", "nullPayload", <<>>, "missing", Undefined)}
    \cup {Response("ok", "array", ids, r[1], r[2]) :
            ids \in SelectedIdLists, r \in ReasoningOptions}

\* The text of an answer: a payload, bare or wrapped in a ```json fence
Text(fenced, payload) == [fenced |-> fenced, payload |-> payload]

NoText == Text(FALSE, Response("none", "missing", <<>>, "missing", Undefined))

\* result.response.text(): every payload bare, and the well-formed payloads
\* that carry a rating also inside a fence
ResponseTexts ==
    {Text(FALSE, r) : r \in Responses}
    \cup {Text(TRUE, r) : r \in {q \in Responses :
            /\ q.parse = "ok" /\ q.idsKind = "array"
            /\ q.reasoning = "object" /\ q.styleScore = Num(8 * Scale)}}

\* type.toLowerCase()
toLowerCase(t) ==
    CASE t = "Top" -> "top"
      [] t = "Bottom" -> "bottom"
      [] t = "Footwear" -> "footwear"
      [] OTHER -> t

TopAliases == {"top", "shirt", "t-shirt", "blouse", "sweater", "hoodie", "outerwear"}
BottomAliases == {"bottom", "pants", "jeans", "shorts", "skirt"}

----------------------------------------------------------------------------
\* Outfit recommendation: the code after the model's answer

\* Array.prototype.includes
includes(arr, x) == \E i \in 1..Len(arr) : arr[i] = x

\* aiResponse.reasoning?.styleScore
OptionalStyleScore(resp) ==
    IF resp.reasoning = "object" THEN resp.styleScore ELSE Undefined

\* wardrobeItems.filter(item => aiResponse.selectedItemIds.includes(String(item.id)))
FilterSelected(wardrobe, ids) ==
    SelectSeq(wardrobe, LAMBDA item : includes(ids, String(item.id)))

\* a filter that takes every locked id for missing
MissingLockedAll(locked, selected) == locked

\* lockedItems.filter(id => !selectedItems.some(item => String(item.id) === id))
MissingLocked(locked, selected) ==
    SelectSeq(locked, LAMBDA id : ~ \E i \in 1..Len(selected) : String(selected[i].id) = id)

\* a lookup that falls back to the first item when no id matches
FindItemOrFirst(wardrobe, id) ==
    IF \E i \in 1..Len(wardrobe) : String(wardrobe[i].id) = id
    THEN CHOOSE i \in 1..Len(wardrobe) :
            /\ String(wardrobe[i].id) = id
            /\ \A j \in 1..(i - 1) : String(wardrobe[j].id) # id
    ELSE IF Len(wardrobe) > 0 THEN 1 ELSE 0

\* wardrobeItems.find(i => String(i.id) === id): its 1-based position, 0 for undefined
FindItem(wardrobe, id) ==
    IF \E i \in 1..Len(wardrobe) : String(wardrobe[i].id) = id
    THEN CHOOSE i \in 1..Len(wardrobe) :
            /\ String(wardrobe[i].id) = id
            /\ \A j \in 1..(i - 1) : String(wardrobe[j].id) # id
    ELSE 0

\* the conflict search without its test that the item is not locked
ConflictIndexAnyItem(selected, itemToAdd, lockedIdsSet) ==
    IF \E i \in 1..Len(selected) : selected[i].type = itemToAdd.type
    THEN (CHOOSE i \in 1..Len(selected) :
            /\ selected[i].type = itemToAdd.type
            /\ \A j \in 1..(i - 1) : selected[j].type # itemToAdd.type) - 1
    ELSE 0 - 1

\* a conflict search that takes the last match
ConflictIndexLast(selected, itemToAdd, lockedIdsSet) ==
    LET hit(i) == /\ selected[i].type = itemToAdd.type
                  /\ String(selected[i].id) \notin lockedIdsSet
    IN  IF \E i \in 1..Len(selected) : hit(i)
        THEN (CHOOSE i \in 1..Len(selected) :
                hit(i) /\ \A j \in (i + 1)..Len(selected) : ~ hit(j)) - 1
        ELSE 0 - 1

\* selectedItems.findIndex(i => i.type === itemToAdd.type && !lockedIdsSet.has(String(i.id)))
\* 0-based, -1 when no item matches
ConflictIndex(selected, itemToAdd, lockedIdsSet) ==
    LET hit(i) == /\ selected[i].type = itemToAdd.type
                  /\ String(selected[i].id) \notin lockedIdsSet
    IN  IF \E i \in 1..Len(selected) : hit(i)
        THEN (CHOOSE i \in 1..Len(selected) : hit(i) /\ \A j \in 1..(i - 1) : ~ hit(j)) - 1
        ELSE 0 - 1

\* a removal of every item of the conflicting item's type
SpliceAllOfType(selected, index) ==
    SelectSeq(selected, LAMBDA item : item.type # selected[index + 1].type)

\* selectedItems.splice(index, 1), index 0-based
Splice(selected, index) ==
    [i \in 1..(Len(selected) - 1) |-> IF i <= index THEN selected[i] ELSE selected[i + 1]]

\* the body of the loop over missingLockedIds, for one id
EnforceOne(selected, id, wardrobe, lockedIdsSet) ==
    LET at == FindItem(wardrobe, id)
    IN  IF at = 0 THEN selected
        ELSE LET itemToAdd == wardrobe[at]
                 conflictIndex == ConflictIndex(selected, itemToAdd, lockedIdsSet)
                 kept == IF conflictIndex # 0 - 1
                         THEN Splice(selected, conflictIndex)
                         ELSE selected
             IN  Append(kept, itemToAdd)

\* for (const id of missingLockedIds) { ... }, from entry k on
RECURSIVE EnforceLoop(_, _, _, _, _)
EnforceLoop(selected, missing, k, wardrobe, lockedIdsSet) ==
    IF k > Len(missing) THEN selected
    ELSE EnforceLoop(EnforceOne(selected, missing[k], wardrobe, lockedIdsSet),
                     missing, k + 1, wardrobe, lockedIdsSet)

\* the locking mechanism enforcement block
EnforceLocks(selected, locked, wardrobe) ==
    IF Len(locked) > 0
    THEN LET lockedIdsSet == {locked[i] : i \in 1..Len(locked)}
             missing == MissingLocked(locked, selected)
         IN  IF Len(missing) > 0
             THEN EnforceLoop(selected, missing, 1, wardrobe, lockedIdsSet)
             ELSE selected
    ELSE selected

\* a test for a top that compares the type as it is written
hasTopCaseSensitive(selected) == \E i \in 1..Len(selected) : selected[i].type \in TopAliases

hasTop(selected) == \E i \in 1..Len(selected) : toLowerCase(selected[i].type) \in TopAliases
hasBottom(selected) == \E i \in 1..Len(selected) : toLowerCase(selected[i].type) \in BottomAliases

----------------------------------------------------------------------------
\* Outfit recommendation: generateAIOutfitRecommendation

\* JSON.parse(responseText): a fence is no JSON
JsonParse(text) ==
    IF text.fenced \/ text.payload.parse # "ok" THEN "SyntaxError" ELSE "ok"

\* a format test that takes a missing selectedItemIds for an empty selection
FormatErrorLenient(payload) ==
    IF payload.idsKind = "nullPayload" THEN "TypeError"
    ELSE IF payload.idsKind = "notArray" THEN "Invalid AI response format"
    ELSE "ok"

\* if (!aiResponse.selectedItemIds || !Array.isArray(aiResponse.selectedItemIds)) throw;
\* reading a property of a null payload throws a TypeError
FormatError(payload) ==
    IF payload.idsKind = "nullPayload" THEN "TypeError"
    ELSE IF payload.idsKind # "array" THEN "Invalid AI response format"
    ELSE "ok"

\* a catch block that logs the error and returns instead of rethrowing
CatchSwallows(error) == [pc |-> "returned", error |-> "none"]

\* catch (error) { ...; log.push(...); throw error; }
Catch(error) == [pc |-> "threw", error |-> error]

GenInit ==
    /\ genPc = "idle"
    /\ wardrobeItems = <<>>
    /\ lockedItems = <<>>
    /\ aiResponse = Response("none", "missing", <<>>, "missing", Undefined)
    /\ selectedByModel = <<>>
    /\ missingLockedIds = <<>>
    /\ outfit = <<>>
    /\ validationScore = 0
    /\ iterations = 0
    /\ analysisLog = <<>>
    /\ genError = "none"
    /\ cachedModel = FALSE
    /\ modelCalls = 0
    /\ modelOutcome = "none"
    /\ responseText = NoText

\* getTextModel() -> getGeminiClient() throws: no key and no cached model.
\* The call ends before its log exists and before the try block.
GenerateConfigError ==
    /\ genPc = "idle"
    /\ ~ cachedModel /\ ~ apiKeyConfigured
    /\ \E w \in Wardrobes, l \in SeqsUpTo(IdStrings, MaxLocked) :
        /\ wardrobeItems' = w
        /\ lockedItems' = l
    /\ genError' = "Gemini API key not configured"
    /\ genPc' = "threw"
    /\ UNCHANGED <<aiResponse, selectedByModel, missingLockedIds, outfit,
                   validationScore, iterations, analysisLog, cachedModel,
                   modelCalls, modelOutcome, responseText>>
    /\ UNCHANGED <<scoreVars, rateVars, anVars, labelVars, apiVars,
                   configVars, waitVars, uploadVars>>

\* The call up to its await of model.generateContent
Generate ==
    /\ genPc = "idle"
    /\ cachedModel \/ apiKeyConfigured
    /\ \E w \in Wardrobes, l \in SeqsUpTo(IdStrings, MaxLocked) :
        /\ wardrobeItems' = w
        /\ lockedItems' = l
    /\ cachedModel' = TRUE
    /\ analysisLog' = <<"start", "generating">>
    /\ modelCalls' = modelCalls + 1
    /\ genPc' = "awaiting"
    /\ UNCHANGED <<aiResponse, selectedByModel, missingLockedIds, outfit,
                   validationScore, iterations, genError, modelOutcome,
                   responseText>>
    /\ UNCHANGED <<scoreVars, rateVars, anVars, labelVars, apiVars,
                   configVars, waitVars, uploadVars>>

\* model.generateContent rejects: the catch block logs and rethrows
ModelCallFails ==
    /\ genPc = "awaiting"
    /\ modelOutcome' = "rejected"
    /\ analysisLog' = Append(analysisLog, "error")
    /\ genError' = Catch("ExternalServiceError").error
    /\ genPc' = Catch("ExternalServiceError").pc
    /\ UNCHANGED <<wardrobeItems, lockedItems, aiResponse, selectedByModel,
                   missingLockedIds, outfit, validationScore, iterations,
                   cachedModel, modelCalls, responseText>>
    /\ UNCHANGED <<scoreVars, rateVars, anVars, labelVars, apiVars,
                   configVars, waitVars, uploadVars>>

\* model.generateContent resolves with text that JSON.parse rejects or
\* that carries no selectedItemIds array: thrown, logged, rethrown
ModelAnswersMalformed ==
    /\ genPc = "awaiting"
    /\ \E text \in ResponseTexts :
        LET error == IF JsonParse(text) # "ok" THEN JsonParse(text)
                     ELSE FormatError(text.payload)
        IN  /\ error # "ok"
            /\ responseText' = text
            /\ aiResponse' = IF JsonParse(text) = "ok" THEN text.payload ELSE aiResponse
            /\ genError' = Catch(error).error
            /\ genPc' = Catch(error).pc
    /\ modelOutcome' = "resolved"
    /\ analysisLog' = Append(analysisLog, "error")
    /\ UNCHANGED <<wardrobeItems, lockedItems, selectedByModel,
                   missingLockedIds, outfit, validationScore, iterations,
                   cachedModel, modelCalls>>
    /\ UNCHANGED <<scoreVars, rateVars, anVars, labelVars, apiVars,
                   configVars, waitVars, uploadVars>>

\* model.generateContent resolves with a well-formed answer: the rest of the
\* try block, down to the return
ModelAnswers ==
    /\ genPc = "awaiting"
    /\ \E text \in ResponseTexts :
        /\ JsonParse(text) = "ok" /\ FormatError(text.payload) = "ok"
        /\ responseText' = text
        /\ aiResponse' = text.payload
        /\ LET resp == text.payload
               ids == IF resp.idsKind = "array" THEN resp.selectedItemIds ELSE <<>>
               selectedItems == FilterSelected(wardrobeItems, ids)
               missing == IF Len(lockedItems) > 0
                          THEN MissingLocked(lockedItems, selectedItems)
                          ELSE <<>>
               final == EnforceLocks(selectedItems, lockedItems, wardrobeItems)
               normalizedScore == normalizeStyleScore(OptionalStyleScore(resp))
           IN  /\ selectedByModel' = selectedItems
               /\ missingLockedIds' = missing
               /\ outfit' = final
               /\ validationScore' = normalizedScore
               /\ analysisLog' =
                    analysisLog
                    \o (IF Len(missing) > 0 THEN <<"enforcing">> ELSE <<>>)
                    \o (IF ~ hasTop(final) \/ ~ hasBottom(final)
                        THEN <<"incomplete">> ELSE <<>>)
                    \o <<"score", "items">>
    /\ modelOutcome' = "resolved"
    /\ iterations' = 1
    /\ genPc' = "returned"
    /\ UNCHANGED <<wardrobeItems, lockedItems, genError, cachedModel, modelCalls>>
    /\ UNCHANGED <<scoreVars, rateVars, anVars, labelVars, apiVars,
                   configVars, waitVars, uploadVars>>

----------------------------------------------------------------------------
\* Rate limiter

\* the clock runs from 0 to MaxTime
MaxTime == 3
\* config.maxRequests ranges over 1..MaxRequests
MaxRequests == 2
\* config.windowMs ranges over 1..MaxWindowMs
MaxWindowMs == 2
\* checkRateLimit calls in one run
MaxCalls == 4

\* the keys of RATE_LIMITS
Keys == {"gemini", "openweather"}

Configs == [maxRequests : 1..MaxRequests, windowMs : 1..MaxWindowMs]

\* rateLimiters.get(key), with the state created when there is none
RequestsOf(limiters, key) ==
    IF key \in DOMAIN limiters THEN limiters[key] ELSE <<>>

\* a filter that keeps the timestamp lying exactly on the window's start
UnexpiredInclusive(requests, windowStart) ==
    SelectSeq(requests, LAMBDA timestamp : timestamp >= windowStart)

\* a fixed window: the whole history is dropped once its oldest request expired
UnexpiredFixedWindow(requests, windowStart) ==
    IF Len(requests) > 0 /\ requests[1] <= windowStart THEN <<>> ELSE requests

\* state.requests.filter(timestamp => timestamp > windowStart)
Unexpired(requests, windowStart) ==
    SelectSeq(requests, LAMBDA timestamp : timestamp > windowStart)

\* a limit test that lets one request too many through
AtLimitOffByOne(requests, config) == Len(requests) > config.maxRequests

\* state.requests.length >= config.maxRequests
AtLimit(requests, config) == Len(requests) >= config.maxRequests

\* Math.max(0, oldestRequest + config.windowMs - now)
WaitMs(requests, config, t) ==
    Max(0, requests[1] + config.windowMs - t)

\* a check that records the rejected request too
CheckResultRecordsRejected(limiters, key, config, t) ==
    LET kept == Unexpired(RequestsOf(limiters, key), t - config.windowMs)
    IN  IF AtLimit(kept, config)
        THEN [requests |-> Append(kept, t), allowed |-> FALSE,
              waitMs |-> WaitMs(kept, config, t), remaining |-> 0]
        ELSE [requests |-> Append(kept, t), allowed |-> TRUE, waitMs |-> 0,
              remaining |-> config.maxRequests - (Len(kept) + 1)]

\* checkRateLimit(key, config) at time t: the requests it leaves and its result
CheckResult(limiters, key, config, t) ==
    LET kept == Unexpired(RequestsOf(limiters, key), t - config.windowMs)
    IN  IF AtLimit(kept, config)
        THEN [requests |-> kept, allowed |-> FALSE,
              waitMs |-> WaitMs(kept, config, t), remaining |-> 0]
        ELSE [requests |-> Append(kept, t), allowed |-> TRUE, waitMs |-> 0,
              remaining |-> config.maxRequests - (Len(kept) + 1)]

RateInit ==
    /\ now = 0
    /\ rateLimiters = <<>>
    /\ limitConfig \in [Keys -> Configs]
    /\ calls = <<>>

\* Date.now() moves on
Tick ==
    /\ now < MaxTime
    /\ now' = now + 1
    /\ UNCHANGED <<rateLimiters, limitConfig, calls>>
    /\ UNCHANGED <<scoreVars, genVars, anVars, labelVars, apiVars,
                   configVars, waitVars, uploadVars>>

checkRateLimit(key) ==
    /\ Len(calls) < MaxCalls
    /\ LET r == CheckResult(rateLimiters, key, limitConfig[key], now)
       IN  /\ rateLimiters' =
                [k \in DOMAIN rateLimiters \cup {key} |->
                    IF k = key THEN r.requests ELSE rateLimiters[k]]
           /\ calls' = Append(calls,
                [key |-> key, at |-> now,
                 before |-> RequestsOf(rateLimiters, key),
                 allowed |-> r.allowed, waitMs |-> r.waitMs,
                 remaining |-> r.remaining])
    /\ UNCHANGED <<now, limitConfig>>
    /\ UNCHANGED <<scoreVars, genVars, anVars, labelVars, apiVars,
                   configVars, waitVars, uploadVars>>

CheckRateLimitCall == \E key \in Keys : checkRateLimit(key)

----------------------------------------------------------------------------
\* waitForRateLimit: callers waiting on one key

\* the callers of waitForRateLimit
MaxWaiters == 3
\* the callers make their call while Date.now() <= WaitStartBy
WaitStartBy == 1

Waiters == 1..MaxWaiters

\* the key they all wait on
WaitKey == "gemini"

\* the clock runs until every caller can have had a window of its own
WaitHorizon == WaitStartBy + MaxWaiters * MaxWindowMs

WaitInit ==
    /\ waitPc = [w \in Waiters |-> "idle"]
    /\ wakeAt = [w \in Waiters |-> 0]
    /\ resolvedAt = [w \in Waiters |-> 0]

\* a caller that goes on as soon as its check has returned, allowed or not
MustWaitNever(result) == FALSE

\* !result.allowed && result.waitMs > 0
MustWait(result) == ~ result.allowed /\ result.waitMs > 0

\* a timer whose callback is never run
TimerDueNever(w) == FALSE

\* setTimeout(resolve, result.waitMs) has run out
TimerDue(w) == now >= wakeAt[w]

\* the body of waitForRateLimit: one checkRateLimit call, then either the
\* timer is set or the promise resolves
waitForRateLimit(w) ==
    LET result == CheckResult(rateLimiters, WaitKey, limitConfig[WaitKey], now)
    IN  /\ rateLimiters' =
                [k \in DOMAIN rateLimiters \cup {WaitKey} |->
                    IF k = WaitKey THEN result.requests ELSE rateLimiters[k]]
        /\ IF MustWait(result)
           THEN /\ waitPc' = [waitPc EXCEPT ![w] = "sleeping"]
                /\ wakeAt' = [wakeAt EXCEPT ![w] = now + result.waitMs]
                /\ UNCHANGED resolvedAt
           ELSE /\ waitPc' = [waitPc EXCEPT ![w] = "resolved"]
                /\ resolvedAt' = [resolvedAt EXCEPT ![w] = now]
                /\ UNCHANGED wakeAt
        /\ UNCHANGED <<now, limitConfig, calls>>
        /\ UNCHANGED <<scoreVars, genVars, anVars, labelVars, apiVars,
                       configVars, uploadVars>>

\* a caller calls waitForRateLimit(key, config)
WaitCall ==
    \E w \in Waiters :
        /\ waitPc[w] = "idle"
        /\ now <= WaitStartBy
        /\ waitForRateLimit(w)

\* a caller's timer fires and it calls waitForRateLimit again
TimerFires(w) ==
    /\ waitPc[w] = "sleeping"
    /\ TimerDue(w)
    /\ waitForRateLimit(w)

WaiterWakes == \E w \in Waiters : TimerFires(w)

\* Date.now() moves on while a caller is outstanding; callbacks may run late
WaitTick ==
    /\ now < WaitHorizon
    /\ \E w \in Waiters : waitPc[w] # "resolved"
    /\ now' = now + 1
    /\ UNCHANGED <<rateLimiters, limitConfig, calls>>
    /\ UNCHANGED <<scoreVars, genVars, anVars, labelVars, apiVars,
                   configVars, waitVars, uploadVars>>

\* Date.now() moves on once the callbacks that are due have run
WaitTickOnTime ==
    /\ \A w \in Waiters : waitPc[w] = "sleeping" => wakeAt[w] > now
    /\ WaitTick

----------------------------------------------------------------------------

\* Image analysis: analyzeClothingImage

AI_ANALYSIS_MAX_RETRIES == 2
AI_ANALYSIS_TIMEOUT_MS == 30000
AI_ANALYSIS_INITIAL_DELAY_MS == 1000

\* how long a fetch that is not aborted may take: at once, after FastFetchMs,
\* or just inside the abort timer
FastFetchMs == 50
FetchDurations == {0, FastFetchMs, AI_ANALYSIS_TIMEOUT_MS - 1}

\* what the try block can throw besides the abort: fetch rejects, the status
\* is not ok, the candidates are missing, the text is no JSON
TransientFailures ==
    {"networkError", "Gemini API error", "Invalid response from Gemini API",
     "SyntaxError"}

\* analysis.color of a parsed answer
AnalysisColors == {"missing", "#ffffff"}

\* the answers that parse: the text, bare or in a ```json fence
Analyses == [fenced : BOOLEAN, color : AnalysisColors]

\* text.replace(/```json\n?|\n?```/g, '').trim(), then JSON.parse: the fence
\* is gone before the parse
ParseCleanText(analysis) == [color |-> analysis.color]

\* the object returned on success
AnalysisResult(analysis) ==
    [kind |-> "metadata",
     detectedColor |-> IF ParseCleanText(analysis).color = "missing"
                       THEN "#000000" ELSE ParseCleanText(analysis).color]

NoResult == [kind |-> "none", detectedColor |-> "none"]

\* a backoff that does not double
DelayConstant(a) == IF a > 0 THEN AI_ANALYSIS_INITIAL_DELAY_MS ELSE 0

\* if (attempt > 0) delay = AI_ANALYSIS_INITIAL_DELAY_MS * Math.pow(2, attempt - 1)
Delay(a) == IF a > 0 THEN AI_ANALYSIS_INITIAL_DELAY_MS * 2 ^ (a - 1) ELSE 0

\* a loop that stops one attempt early
LoopContinuesStrict(a) == a < AI_ANALYSIS_MAX_RETRIES

\* attempt <= AI_ANALYSIS_MAX_RETRIES
LoopContinues(a) == a <= AI_ANALYSIS_MAX_RETRIES

\* a test that takes no error for the abort
IsAbortNever(name) == FALSE

\* lastError.name === 'AbortError'
IsAbort(name) == name = "AbortError"

\* a loop variable that skips one
NextAttemptSkips(a) == a + 2

\* attempt++
NextAttempt(a) == a + 1

AnalyzeInit ==
    /\ anPc = "idle"
    /\ attempt = 0
    /\ anClock = 0
    /\ fetchStarts = <<>>
    /\ attemptLog = <<>>
    /\ lastError = "none"
    /\ anResult = NoResult

\* The call down to its first fetch: no key test, and for attempt 0 no sleep
\* (Delay(0) = 0), so the fetch is issued at once
AnalyzeStart ==
    /\ anPc = "idle"
    /\ attempt' = 0
    /\ anClock' = anClock + Delay(0)
    /\ fetchStarts' = Append(fetchStarts, anClock + Delay(0))
    /\ anPc' = "fetching"
    /\ UNCHANGED <<attemptLog, lastError, anResult>>
    /\ UNCHANGED <<scoreVars, genVars, rateVars, labelVars, apiVars,
                   configVars, waitVars, uploadVars>>

\* The sleep before a retry ends and the fetch of this attempt is issued
BackoffElapses ==
    /\ anPc = "backoff"
    /\ anClock' = anClock + Delay(attempt)
    /\ fetchStarts' = Append(fetchStarts, anClock + Delay(attempt))
    /\ anPc' = "fetching"
    /\ UNCHANGED <<attempt, attemptLog, lastError, anResult>>
    /\ UNCHANGED <<scoreVars, genVars, rateVars, labelVars, apiVars,
                   configVars, waitVars, uploadVars>>

\* the catch block and the loop's step for an error named name
AfterError(name) ==
    IF IsAbort(name)
    THEN [pc |-> "threw", attempt |-> attempt,
          error |-> "AI analysis timed out after 30 seconds"]
    ELSE IF LoopContinues(NextAttempt(attempt))
    THEN [pc |-> "backoff", attempt |-> NextAttempt(attempt), error |-> name]
    ELSE [pc |-> "threw", attempt |-> NextAttempt(attempt), error |-> name]

\* The abort timer fires while the fetch is pending: fetch rejects with an
\* AbortError
AttemptTimesOut ==
    /\ anPc = "fetching"
    /\ anClock' = anClock + AI_ANALYSIS_TIMEOUT_MS
    /\ attemptLog' = Append(attemptLog,
            [endedAt |-> anClock + AI_ANALYSIS_TIMEOUT_MS, outcome |-> "AbortError"])
    /\ LET after == AfterError("AbortError")
       IN  /\ anPc' = after.pc
           /\ attempt' = after.attempt
           /\ lastError' = after.error
    /\ UNCHANGED <<fetchStarts, anResult>>
    /\ UNCHANGED <<scoreVars, genVars, rateVars, labelVars, apiVars,
                   configVars, waitVars, uploadVars>>

\* The try block throws something else than the abort
AttemptFails ==
    /\ anPc = "fetching"
    /\ \E d \in FetchDurations, name \in TransientFailures :
        /\ anClock' = anClock + d
        /\ attemptLog' = Append(attemptLog,
                [endedAt |-> anClock + d, outcome |-> name])
        /\ LET after == AfterError(name)
           IN  /\ anPc' = after.pc
               /\ attempt' = after.attempt
               /\ lastError' = after.error
    /\ UNCHANGED <<fetchStarts, anResult>>
    /\ UNCHANGED <<scoreVars, genVars, rateVars, labelVars, apiVars,
                   configVars, waitVars, uploadVars>>

\* The answer arrives and parses: the result is returned
AttemptSucceeds ==
    /\ anPc = "fetching"
    /\ \E d \in FetchDurations, analysis \in Analyses :
        /\ anClock' = anClock + d
        /\ attemptLog' = Append(attemptLog,
                [endedAt |-> anClock + d, outcome |-> "ok"])
        /\ anResult' = AnalysisResult(analysis)
    /\ anPc' = "returned"
    /\ UNCHANGED <<attempt, fetchStarts, lastError>>
    /\ UNCHANGED <<scoreVars, genVars, rateVars, labelVars, apiVars,
                   configVars, waitVars, uploadVars>>

----------------------------------------------------------------------------
\* Label normalization: toTitleCase, normalizeCategoryLabel,
\* normalizeMaterialLabel.  A string is a sequence of characters.

MaxLabelLen == 4

\* the characters of /[\s|_-]/
Separators == {" ", "|", "_", "-"}

\* the characters the labels are made of: letters in both cases and, between
\* the two kinds of label, every separator
CategoryChars == {"t", "o", "p", "T", " ", "|"}
MaterialChars == {"w", "o", "l", "W", "_", "-"}

\* an optional string: undefined, or its characters
NoLabel == [defined |-> FALSE, chars |-> <<>>]
Label(chars) == [defined |-> TRUE, chars |-> chars]

LabelInputs ==
    {[kind |-> "category", value |-> v] :
        v \in {NoLabel} \cup {Label(c) : c \in SeqsUpTo(CategoryChars, MaxLabelLen)}}
    \cup
    {[kind |-> "material", value |-> v] :
        v \in {NoLabel} \cup {Label(c) : c \in SeqsUpTo(MaterialChars, MaxLabelLen)}}

\* the labels the prompt asks the model to choose from
CategoryVocabulary ==
    {<<"T", "o", "p">>,
     <<"B", "o", "t", "t", "o", "m">>,
     <<"S", "h", "o", "e", "s">>,
     <<"O", "u", "t", "e", "r", "w", "e", "a", "r">>,
     <<"A", "c", "c", "e", "s", "s", "o", "r", "y">>,
     <<"D", "r", "e", "s", "s">>}

MaterialVocabulary ==
    {<<"C", "o", "t", "t", "o", "n">>,
     <<"P", "o", "l", "y", "e", "s", "t", "e", "r">>,
     <<"W", "o", "o", "l">>,
     <<"S", "i", "l", "k">>,
     <<"L", "e", "a", "t", "h", "e", "r">>,
     <<"D", "e", "n", "i", "m">>,
     <<"L", "i", "n", "e", "n">>,
     <<"S", "y", "n", "t", "h", "e", "t", "i", "c">>,
     <<"G", "o", "r", "e", "-", "T", "e", "x">>,
     <<"O", "t", "h", "e", "r">>}

Accessory == <<"A", "c", "c", "e", "s", "s", "o", "r", "y">>
Other == <<"O", "t", "h", "e", "r">>

\* c.toUpperCase(), c.toLowerCase() of one character
charToUpperCase(c) ==
    CASE c = "t" -> "T" [] c = "o" -> "O" [] c = "p" -> "P"
      [] c = "w" -> "W" [] c = "l" -> "L" [] OTHER -> c

charToLowerCase(c) ==
    CASE c = "T" -> "t" [] c = "O" -> "o" [] c = "P" -> "p"
      [] c = "W" -> "w" [] c = "L" -> "l" [] OTHER -> c

\* value.split(/[\s|_-]+/): the parts between runs of separators, the empty
\* parts at the ends included
RECURSIVE SplitRuns(_, _, _)
SplitRuns(s, part, inRun) ==
    IF s = <<>> THEN <<part>>
    ELSE IF Head(s) \in Separators
    THEN IF inRun THEN SplitRuns(Tail(s), part, TRUE)
         ELSE <<part>> \o SplitRuns(Tail(s), <<>>, TRUE)
    ELSE SplitRuns(Tail(s), Append(part, Head(s)), FALSE)

split(s) == SplitRuns(s, <<>>, FALSE)

\* .filter(Boolean)
filterBoolean(parts) == SelectSeq(parts, LAMBDA part : part # <<>>)

\* part.charAt(0).toUpperCase() + part.slice(1).toLowerCase()
capitalize(part) ==
    [i \in 1..Len(part) |->
        IF i = 1 THEN charToUpperCase(part[i]) ELSE charToLowerCase(part[i])]

\* .join(' ')
RECURSIVE join(_)
join(parts) ==
    IF parts = <<>> THEN <<>>
    ELSE IF Len(parts) = 1 THEN parts[1]
    ELSE parts[1] \o <<" ">> \o join(Tail(parts))

\* !value
falsy(value) == ~ value.defined \/ value.chars = <<>>

toTitleCase(value) ==
    IF falsy(value) THEN NoLabel
    ELSE LET parts == filterBoolean(split(value.chars))
         IN  Label(join([i \in 1..Len(parts) |-> capitalize(parts[i])]))

\* category.split('|')[0]
RECURSIVE primaryOf(_)
primaryOf(s) ==
    IF s = <<>> \/ Head(s) = "|" THEN <<>>
    ELSE <<Head(s)>> \o primaryOf(Tail(s))

normalizeCategoryLabel(category) ==
    IF falsy(category) THEN Accessory
    ELSE LET titled == toTitleCase(Label(primaryOf(category.chars)))
         IN  IF falsy(titled) THEN Accessory ELSE titled.chars

normalizeMaterialLabel(material) ==
    IF falsy(toTitleCase(material)) THEN Other
    ELSE toTitleCase(material).chars

LabelInit ==
    /\ labelIn \in LabelInputs
    /\ labelOut = <<>>
    /\ labelPc = "idle"

LabelIdle ==
    /\ labelIn = [kind |-> "category", value |-> NoLabel]
    /\ labelOut = <<>>
    /\ labelPc = "idle"

\* detectedType: normalizeCategoryLabel(analysis.category)
NormalizeCategory ==
    /\ labelPc = "idle"
    /\ labelIn.kind = "category"
    /\ labelOut' = normalizeCategoryLabel(labelIn.value)
    /\ labelPc' = "done"
    /\ UNCHANGED labelIn
    /\ UNCHANGED <<scoreVars, genVars, rateVars, anVars, apiVars,
                   configVars, waitVars, uploadVars>>

\* detectedMaterial: normalizeMaterialLabel(analysis.material)
NormalizeMaterial ==
    /\ labelPc = "idle"
    /\ labelIn.kind = "material"
    /\ labelOut' = normalizeMaterialLabel(labelIn.value)
    /\ labelPc' = "done"
    /\ UNCHANGED labelIn
    /\ UNCHANGED <<scoreVars, genVars, rateVars, anVars, apiVars,
                   configVars, waitVars, uploadVars>>

----------------------------------------------------------------------------
\* API handlers: outfits/[id] DELETE, wardrobe/[id] GET, PATCH, DELETE,
\* outfits/history GET, settings/profile GET, PUT.  The database holds rows
\* of two users.

Users == {"u", "v"}
NoSession == "none"
Sessions == Users \cup {NoSession}

OutfitIds == {1, 2}
OutfitOwner == <<"u", "v">>
\* the clothing item each outfit's outfit_items rows point to
OutfitItem == <<1, 3>>

ItemIds == {1, 2, 3}
ItemOwner == <<"u", "u", "v">>
\* image_url of the row is set
ItemImage == <<TRUE, FALSE, TRUE>>

\* Number(params.id) of a request: an id of a row, or 0
OutfitIdParams == {0} \cup OutfitIds

Access(table, owner, kind) == [table |-> table, owner |-> owner, kind |-> kind]

ApiInit ==
    /\ dbOutfits = OutfitIds
    /\ dbOutfitItems = OutfitIds
    /\ dbItems = ItemIds
    /\ dbPatched = {}
    /\ storageFiles = {i \in ItemIds : ItemImage[i]}
    /\ reqSession = NoSession
    /\ reqAccess = {}
    /\ resStatus = 0
    /\ reqDelete = "none"
    /\ reqCleanup = "none"

\* the other specifications: no request, the policy in place
ApiIdle == ApiInit /\ outfitItemsPolicy = TRUE

\* the response, with the rows the request touched
Respond(session, status, access) ==
    /\ reqSession' = session
    /\ resStatus' = status
    /\ reqAccess' = access

\* a request that is no wardrobe DELETE, or one that ends before its queries
NoDelete ==
    /\ reqDelete' = "none"
    /\ reqCleanup' = "none"

\* outfit_items rows that .delete().eq('outfit_id', outfitId) removes for the
\* session: the query names no user, so only a database policy can hold it
OutfitItemsDeleted(session, outfitId) ==
    {o \in dbOutfitItems :
        /\ o = outfitId
        /\ (outfitItemsPolicy => OutfitOwner[o] = session)}

\* outfits rows that .delete().eq('id', outfitId).eq('user_id', user.id) removes
OutfitsDeleted(session, outfitId) ==
    {o \in dbOutfits : o = outfitId /\ OutfitOwner[o] = session}

\* clothing_items rows matched by .eq('id', id).eq('user_id', user.id)
ItemsMatched(session, id) ==
    {i \in dbItems : i = id /\ ItemOwner[i] = session}

\* DELETE /api/outfits/[id]
OutfitDelete ==
    \E session \in Sessions, outfitId \in OutfitIdParams,
       fault \in {"none", "outfit_items", "outfits"} :
        LET items == OutfitItemsDeleted(session, outfitId)
            outfits == OutfitsDeleted(session, outfitId)
            itemAccess == {Access("outfit_items", OutfitOwner[o], "delete") : o \in items}
            outfitAccess == {Access("outfits", OutfitOwner[o], "delete") : o \in outfits}
        IN
        /\ IF session = NoSession
           THEN /\ Respond(session, 401, {})
                /\ UNCHANGED <<dbOutfits, dbOutfitItems>>
           ELSE IF outfitId <= 0
           THEN /\ Respond(session, 400, {})
                /\ UNCHANGED <<dbOutfits, dbOutfitItems>>
           ELSE IF fault = "outfit_items"
           THEN /\ Respond(session, 500, {})
                /\ UNCHANGED <<dbOutfits, dbOutfitItems>>
           ELSE IF fault = "outfits"
           THEN /\ dbOutfitItems' = dbOutfitItems \ items
                /\ Respond(session, 500, itemAccess)
                /\ UNCHANGED dbOutfits
           ELSE IF outfits = {}
           THEN /\ dbOutfitItems' = dbOutfitItems \ items
                /\ Respond(session, 404, itemAccess)
                /\ UNCHANGED dbOutfits
           ELSE /\ dbOutfitItems' = dbOutfitItems \ items
                /\ dbOutfits' = dbOutfits \ outfits
                /\ Respond(session, 200, itemAccess \cup outfitAccess)
        /\ UNCHANGED <<dbItems, dbPatched, storageFiles, outfitItemsPolicy>>
        /\ NoDelete
        /\ UNCHANGED <<scoreVars, genVars, rateVars, anVars, labelVars, configVars, waitVars, uploadVars>>

\* GET /api/wardrobe/[id]
WardrobeItemGet ==
    \E session \in Sessions, id \in ItemIds, fault \in BOOLEAN :
        LET rows == ItemsMatched(session, id)
        IN
        /\ IF session = NoSession THEN Respond(session, 401, {})
           ELSE IF fault THEN Respond(session, 500, {})
           ELSE IF rows = {} THEN Respond(session, 404, {})
           ELSE Respond(session, 200,
                    {Access("clothing_items", ItemOwner[i], "read") : i \in rows})
        /\ UNCHANGED <<dbOutfits, dbOutfitItems, dbItems, dbPatched,
                       storageFiles, outfitItemsPolicy>>
        /\ NoDelete
        /\ UNCHANGED <<scoreVars, genVars, rateVars, anVars, labelVars, configVars, waitVars, uploadVars>>

\* PATCH /api/wardrobe/[id]
WardrobeItemPatch ==
    \E session \in Sessions, id \in ItemIds, bodyIsJson \in BOOLEAN :
        LET rows == ItemsMatched(session, id)
        IN
        /\ IF session = NoSession
           THEN Respond(session, 401, {}) /\ UNCHANGED dbPatched
           ELSE IF ~ bodyIsJson
           THEN Respond(session, 400, {}) /\ UNCHANGED dbPatched
           ELSE IF rows = {}
           THEN Respond(session, 500, {}) /\ UNCHANGED dbPatched
           ELSE /\ dbPatched' = dbPatched \cup rows
                /\ Respond(session, 200,
                    {Access("clothing_items", ItemOwner[i], "update") : i \in rows})
        /\ UNCHANGED <<dbOutfits, dbOutfitItems, dbItems, storageFiles,
                       outfitItemsPolicy>>
        /\ NoDelete
        /\ UNCHANGED <<scoreVars, genVars, rateVars, anVars, labelVars, configVars, waitVars, uploadVars>>

\* if (!error && item?.image_url)
CleanupAttempted(error, item) ==
    ~ error /\ item # {} /\ \A i \in item : ItemImage[i]

\* a response that fails when the cleanup failed
DeleteStatusEscalates(error, cleanup) ==
    IF error \/ cleanup = "failed" THEN 500 ELSE 200

\* if (error) 500, else success: the cleanup's outcome is not looked at
DeleteStatus(error, cleanup) == IF error THEN 500 ELSE 200

\* DELETE /api/wardrobe/[id]: select image_url, delete the row, then remove
\* the image as far as that works
WardrobeItemDelete ==
    \E session \in Sessions, id \in ItemIds, selectFails \in BOOLEAN,
       deleteFails \in BOOLEAN, cleanupFails \in BOOLEAN :
        LET rows == ItemsMatched(session, id)
            item == IF selectFails THEN {} ELSE rows
            attempted == CleanupAttempted(deleteFails, item)
            cleanup == IF ~ attempted THEN "none"
                       ELSE IF cleanupFails THEN "failed" ELSE "ok"
            read == {Access("clothing_items", ItemOwner[i], "read") : i \in item}
            deleted == {Access("clothing_items", ItemOwner[i], "delete") : i \in rows}
        IN
        /\ IF session = NoSession
           THEN /\ Respond(session, 401, {})
                /\ NoDelete
                /\ UNCHANGED <<dbItems, dbPatched, storageFiles>>
           ELSE /\ dbItems' = IF deleteFails THEN dbItems ELSE dbItems \ rows
                /\ dbPatched' = IF deleteFails THEN dbPatched ELSE dbPatched \ rows
                /\ storageFiles' = IF cleanup = "ok" THEN storageFiles \ item
                                   ELSE storageFiles
                /\ reqDelete' = IF deleteFails THEN "error" ELSE "ok"
                /\ reqCleanup' = cleanup
                /\ Respond(session, DeleteStatus(deleteFails, cleanup),
                           read \cup (IF deleteFails THEN {} ELSE deleted))
        /\ UNCHANGED <<dbOutfits, dbOutfitItems, outfitItemsPolicy>>
        /\ UNCHANGED <<scoreVars, genVars, rateVars, anVars, labelVars, configVars, waitVars, uploadVars>>

\* GET /api/outfits/history: the session's outfits with their outfit_items
\* and the clothing_items these point to
HistoryGet ==
    \E session \in Sessions, fault \in BOOLEAN :
        LET outfits == {o \in dbOutfits : OutfitOwner[o] = session}
            items == {OutfitItem[o] : o \in outfits \cap dbOutfitItems} \cap dbItems
        IN
        /\ IF session = NoSession THEN Respond(session, 401, {})
           ELSE IF fault THEN Respond(session, 500, {})
           ELSE Respond(session, 200,
                    {Access("outfits", OutfitOwner[o], "read") : o \in outfits}
                    \cup {Access("outfit_items", OutfitOwner[o], "read") :
                            o \in outfits \cap dbOutfitItems}
                    \cup {Access("clothing_items", ItemOwner[i], "read") : i \in items})
        /\ UNCHANGED <<dbOutfits, dbOutfitItems, dbItems, dbPatched,
                       storageFiles, outfitItemsPolicy>>
        /\ NoDelete
        /\ UNCHANGED <<scoreVars, genVars, rateVars, anVars, labelVars, configVars, waitVars, uploadVars>>

\* GET and PUT /api/settings/profile: .eq('id', user.id)
ProfileGetOrPut ==
    \E session \in Sessions, kind \in {"read", "update"}, fault \in BOOLEAN :
        /\ IF session = NoSession THEN Respond(session, 401, {})
           ELSE IF fault THEN Respond(session, 500, {})
           ELSE Respond(session, 200, {Access("profiles", session, kind)})
        /\ UNCHANGED <<dbOutfits, dbOutfitItems, dbItems, dbPatched,
                       storageFiles, outfitItemsPolicy>>
        /\ NoDelete
        /\ UNCHANGED <<scoreVars, genVars, rateVars, anVars, labelVars, configVars, waitVars, uploadVars>>

----------------------------------------------------------------------------
\* Upload with progress: uploadWithProgress

\* event.total of a progress event ranges over 1..MaxUploadTotal
MaxUploadTotal == 2

\* xhr.status of a load event: around the two ends of the 2xx range
UploadStatuses == {199, 200, 204, 299, 300, 500}

\* xhr.responseText of a failed load: JSON with an error field, JSON
\* without one, the JSON null, or no JSON
UploadBodies == {"error-field", "no-error-field", "null", "not-json"}

NoUploadResult == [success |-> FALSE, error |-> "", url |-> ""]
UploadAborted == [success |-> FALSE, error |-> "Upload aborted", url |-> ""]
UploadFailed == [success |-> FALSE, error |-> "Upload failed", url |-> ""]

\* the result onload hands to finalize
LoadResult(status, body) ==
    IF status >= 200 /\ status < 300
    THEN [success |-> TRUE, error |-> "", url |-> "publicUrl"]
    ELSE [success |-> FALSE,
          error |-> IF body = "error-field" THEN "response.error"
                    ELSE "Upload failed",
          url |-> ""]

\* a finalize without the settled flag
finalizeUnguarded(isSettled, state, value, result) ==
    [settled |-> TRUE, resolved |-> TRUE, state |-> "fulfilled",
     value |-> IF state = "pending" THEN result ELSE value]

\* finalize(result): resolve is called unless settled is set; the promise
\* takes the value of the first resolve
finalize(isSettled, state, value, result) ==
    IF isSettled
    THEN [settled |-> TRUE, resolved |-> FALSE, state |-> state, value |-> value]
    ELSE [settled |-> TRUE, resolved |-> TRUE, state |-> "fulfilled",
          value |-> IF state = "pending" THEN result ELSE value]

\* the step calls finalize(result)
Finalizes(result) ==
    LET f == finalize(settled, promiseState, promiseValue, result)
    IN  /\ settled' = f.settled
        /\ resolveCalls' = resolveCalls + (IF f.resolved THEN 1 ELSE 0)
        /\ promiseState' = f.state
        /\ promiseValue' = f.value

UploadIdle ==
    /\ upPc = "idle"
    /\ signal = "none"
    /\ onProgress = FALSE
    /\ abortedAtCall = FALSE
    /\ listening = FALSE
    /\ xhrState = "unsent"
    /\ progress = -1
    /\ settled = FALSE
    /\ resolveCalls = 0
    /\ promiseState = "pending"
    /\ promiseValue = NoUploadResult
    /\ upEvents = <<>>

UploadInit ==
    /\ upPc = "idle"
    /\ signal \in {"none", "clear"}
    /\ onProgress \in BOOLEAN
    /\ abortedAtCall = FALSE
    /\ listening = FALSE
    /\ xhrState = "unsent"
    /\ progress = -1
    /\ settled = FALSE
    /\ resolveCalls = 0
    /\ promiseState = "pending"
    /\ promiseValue = NoUploadResult
    /\ upEvents = <<>>

UploadFrame ==
    UNCHANGED <<scoreVars, genVars, rateVars, anVars, labelVars, apiVars,
                configVars, waitVars>>

\* a check of options.signal.aborted that is left out
SendsRequestAlways(sig) == TRUE

\* the request is set up unless options.signal is aborted already
SendsRequest(sig) == sig # "aborted"

\* the executor of the promise: the call itself
UploadCall ==
    /\ upPc = "idle"
    /\ upPc' = "called"
    /\ abortedAtCall' = (signal = "aborted")
    /\ IF signal = "aborted" THEN Finalizes(UploadAborted)
       ELSE UNCHANGED <<settled, resolveCalls, promiseState, promiseValue>>
    /\ IF SendsRequest(signal)
       THEN /\ listening' = (signal = "clear")
            /\ xhrState' = "sent"
            /\ progress' = IF onProgress THEN 0 ELSE progress
       ELSE UNCHANGED <<listening, xhrState, progress>>
    /\ UNCHANGED <<signal, onProgress, upEvents>>
    /\ UploadFrame

\* the caller aborts the signal; the listener, if registered, runs
SignalAborts ==
    /\ signal = "clear"
    /\ signal' = "aborted"
    /\ IF listening
       THEN /\ xhrState' = IF xhrState = "sent" THEN "aborted" ELSE xhrState
            /\ Finalizes(UploadAborted)
            /\ upEvents' = Append(upEvents, [kind |-> "abort", status |-> 0, body |-> "",
                                          result |-> UploadAborted])
       ELSE UNCHANGED <<xhrState, settled, resolveCalls, promiseState,
                        promiseValue, upEvents>>
    /\ listening' = FALSE
    /\ UNCHANGED <<upPc, onProgress, abortedAtCall, progress>>
    /\ UploadFrame

\* xhr.upload.onprogress
XhrProgress ==
    \E lengthComputable \in BOOLEAN, total \in 1..MaxUploadTotal :
        \E loaded \in 0..total :
            /\ xhrState = "sent"
            /\ progress' = IF onProgress /\ lengthComputable
                           THEN MathRound(loaded * 100, total)
                           ELSE progress
            /\ UNCHANGED <<upPc, signal, onProgress, abortedAtCall, listening,
                           xhrState, settled, resolveCalls, promiseState,
                           promiseValue, upEvents>>
            /\ UploadFrame

\* xhr.onerror
XhrError ==
    /\ xhrState = "sent"
    /\ xhrState' = "errored"
    /\ Finalizes(UploadFailed)
    /\ upEvents' = Append(upEvents,
            [kind |-> "error", status |-> 0, body |-> "",
             result |-> UploadFailed])
    /\ UNCHANGED <<upPc, signal, onProgress, abortedAtCall, listening, progress>>
    /\ UploadFrame

\* xhr.onload
XhrLoad ==
    \E status \in UploadStatuses, body \in UploadBodies :
        /\ xhrState = "sent"
        /\ xhrState' = "loaded"
        /\ progress' = IF onProgress /\ status >= 200 /\ status < 300
                       THEN 100 ELSE progress
        /\ Finalizes(LoadResult(status, body))
        /\ upEvents' = Append(upEvents,
                [kind |-> "load", status |-> status, body |-> body,
                 result |-> LoadResult(status, body)])
        /\ UNCHANGED <<upPc, signal, onProgress, abortedAtCall, listening>>
        /\ UploadFrame

----------------------------------------------------------------------------

\* Specifications.  The three components share no state in the code, so each
\* is run on its own, the other two standing still in their initial state.

RateIdle ==
    /\ now = 0
    /\ rateLimiters = <<>>
    /\ limitConfig = [k \in Keys |-> [maxRequests |-> 1, windowMs |-> 1]]
    /\ calls = <<>>

\* normalizeStyleScore on every score of the grid
InitScore ==
    ScoreInit /\ GenInit /\ RateIdle /\ AnalyzeInit /\ LabelIdle /\ ApiIdle /\ WaitInit /\ UploadIdle
    /\ apiKeyConfigured = TRUE
NextScore == Normalize
SpecScore == InitScore /\ [][NextScore]_vars

\* one call of generateAIOutfitRecommendation
InitGen ==
    ScoreInit /\ GenInit /\ RateIdle /\ AnalyzeInit /\ LabelIdle /\ ApiIdle /\ WaitInit /\ UploadIdle
    /\ apiKeyConfigured \in BOOLEAN
NextGen ==
    \/ GenerateConfigError
    \/ Generate
    \/ ModelCallFails
    \/ ModelAnswersMalformed
    \/ ModelAnswers
SpecGen == InitGen /\ [][NextGen]_vars

\* checkRateLimit calls on a running clock
InitRate ==
    ScoreInit /\ GenInit /\ RateInit /\ AnalyzeInit /\ LabelIdle /\ ApiIdle /\ WaitInit /\ UploadIdle
    /\ apiKeyConfigured = TRUE
NextRate == Tick \/ CheckRateLimitCall
SpecRate == InitRate /\ [][NextRate]_vars

\* Image analysis alone, with and without the API key
InitAnalyze ==
    ScoreInit /\ GenInit /\ RateIdle /\ AnalyzeInit /\ LabelIdle /\ ApiIdle /\ WaitInit /\ UploadIdle
    /\ apiKeyConfigured \in BOOLEAN
NextAnalyze ==
    \/ AnalyzeStart
    \/ BackoffElapses
    \/ AttemptTimesOut
    \/ AttemptFails
    \/ AttemptSucceeds
SpecAnalyze == InitAnalyze /\ [][NextAnalyze]_vars

\* Label normalization alone
InitLabel ==
    ScoreInit /\ GenInit /\ RateIdle /\ AnalyzeInit /\ LabelInit /\ ApiIdle /\ WaitInit /\ UploadIdle
    /\ apiKeyConfigured = TRUE
NextLabel == NormalizeCategory \/ NormalizeMaterial
SpecLabel == InitLabel /\ [][NextLabel]_vars

\* The API handlers alone; what policy the database has on outfit_items is
\* not in the repository's sources, so both are taken
InitApi ==
    ScoreInit /\ GenInit /\ RateIdle /\ AnalyzeInit /\ LabelIdle /\ ApiInit /\ WaitInit /\ UploadIdle
    /\ outfitItemsPolicy \in BOOLEAN
    /\ apiKeyConfigured = TRUE
NextApi ==
    \/ OutfitDelete
    \/ WardrobeItemGet
    \/ WardrobeItemPatch
    \/ WardrobeItemDelete
    \/ HistoryGet
    \/ ProfileGetOrPut
SpecApi == InitApi /\ [][NextApi]_vars

\* waitForRateLimit callers on one key, the other key left with one config
InitWait ==
    ScoreInit /\ GenInit /\ RateInit /\ AnalyzeInit /\ LabelIdle /\ ApiIdle
    /\ WaitInit /\ UploadIdle
    /\ \A k \in Keys \ {WaitKey} : limitConfig[k] = [maxRequests |-> 1, windowMs |-> 1]
    /\ apiKeyConfigured = TRUE
NextWait == WaitCall \/ WaiterWakes \/ WaitTick
SpecWait == InitWait /\ [][NextWait]_vars

\* the same callers with a clock that keeps advancing and an event loop that
\* runs every timer that is due
NextWaitFair == WaitCall \/ WaiterWakes \/ WaitTickOnTime
SpecWaitFair ==
    /\ InitWait
    /\ [][NextWaitFair]_vars
    /\ WF_vars(WaitTickOnTime)
    /\ \A w \in Waiters : WF_vars(TimerFires(w))

\* One uploadWithProgress call, with and without a signal and a progress
\* callback
InitUpload ==
    ScoreInit /\ GenInit /\ RateIdle /\ AnalyzeInit /\ LabelIdle /\ ApiIdle
    /\ WaitInit /\ UploadInit
    /\ apiKeyConfigured = TRUE
NextUpload ==
    \/ UploadCall
    \/ SignalAborts
    \/ XhrProgress
    \/ XhrError
    \/ XhrLoad
SpecUpload == InitUpload /\ [][NextUpload]_vars

----------------------------------------------------------------------------
\* Properties of the lock enforcement (SpecGen)

InOutfit(id) == \E j \in 1..Len(outfit) : String(outfit[j].id) = id
InWardrobe(id) == \E j \in 1..Len(wardrobeItems) : String(wardrobeItems[j].id) = id

\* the model-selected items that the final outfit no longer holds
RemovedByEnforcement ==
    {i \in 1..Len(selectedByModel) : ~ InOutfit(String(selectedByModel[i].id))}

\* C1: the outfit returned by generateAIOutfitRecommendation holds every
\* item whose id is in lockedItems and in the wardrobe, also when the
\* model left it out.
C1_LockedItemsPresent ==
    genPc = "returned" =>
        \A i \in 1..Len(lockedItems) :
            InWardrobe(lockedItems[i]) => InOutfit(lockedItems[i])

\* a returned call whose locked ids all exist, one of them omitted by the model
C1_Witness ==
    /\ genPc = "returned"
    /\ Len(lockedItems) = MaxLocked
    /\ \A i \in 1..Len(lockedItems) : InWardrobe(lockedItems[i])
    /\ Len(missingLockedIds) > 0
    /\ Len(selectedByModel) > 0
    /\ \A i \in 1..Len(lockedItems) : InOutfit(lockedItems[i])

\* C2: the model-selected items absent from the final outfit are at most as
\* many as the locked ids the model missed, the entries of missingLockedIds
\* (an id repeated in lockedItems is one entry per occurrence).
C2_AtMostOneRemovalPerMissing ==
    genPc = "returned" =>
        Cardinality(RemovedByEnforcement) <= Len(missingLockedIds)

\* a returned call in which the enforcement removed a model-selected item
\* and kept another
C2_Witness ==
    /\ genPc = "returned"
    /\ Cardinality(RemovedByEnforcement) = 1
    /\ Len(selectedByModel) = 2
    /\ Len(missingLockedIds) = 1

----------------------------------------------------------------------------
\* Properties of the score normalizer (SpecScore, and SpecGen for C7)

\* r is num / den rounded to the nearest integer, a half going up
IsRounded(r, num, den) ==
    /\ 2 * den * r - den <= 2 * num
    /\ 2 * num < 2 * den * r + den

\* C3: normalizeStyleScore returns an integer in [0,100] for undefined,
\* null and every number, whatever its scale.
C3_ScoreInRange ==
    scorePc = "done" => scoreOut \in 0..100

\* a negative score, normalized to 0
C3_Witness ==
    /\ scorePc = "done"
    /\ scoreIn.kind = "num"
    /\ scoreIn.n < 0 - Scale
    /\ scoreOut = 0

\* C4: for a score s in (0,1], normalize(s) = round(s * 100).
C4_FractionRule ==
    (scorePc = "done" /\ scoreIn.kind = "num" /\ scoreIn.n > 0 /\ scoreIn.n <= Scale)
        => IsRounded(scoreOut, 100 * scoreIn.n, Scale)

\* s = 0.92 gives 92
C4_Witness ==
    /\ scorePc = "done"
    /\ scoreIn.kind = "num"
    /\ 100 * scoreIn.n = 92 * Scale
    /\ scoreOut = 92

\* C5: for a score s in [1,10], normalize(s) = round(s * 10), except that
\* s = 1 takes the fraction rule and gives 100.
C5_RatingRule ==
    (scorePc = "done" /\ scoreIn.kind = "num")
        => /\ (scoreIn.n > Scale /\ scoreIn.n <= 10 * Scale)
                => IsRounded(scoreOut, 10 * scoreIn.n, Scale)
           /\ scoreIn.n = Scale => scoreOut = 100

\* s = 8 gives 80
C5_Witness ==
    /\ scorePc = "done"
    /\ scoreIn.kind = "num"
    /\ scoreIn.n = 8 * Scale
    /\ scoreOut = 80

\* C6: for a negative score and for a score above 10,
\* normalize(s) = clamp(round(s), 0, 100).
C6_ClampRule ==
    (scorePc = "done" /\ scoreIn.kind = "num"
        /\ (scoreIn.n < 0 \/ scoreIn.n > 10 * Scale))
        => \E r \in (0 - ScoreBelow - 1)..(ScoreAbove + 1) :
            /\ IsRounded(r, scoreIn.n, Scale)
            /\ scoreOut = (IF r < 0 THEN 0 ELSE IF r > 100 THEN 100 ELSE r)

\* s = 105 gives 100
C6_Witness ==
    /\ scorePc = "done"
    /\ scoreIn.kind = "num"
    /\ scoreIn.n = 105 * Scale
    /\ scoreOut = 100

\* C7: when the model's answer carries no styleScore (no reasoning object,
\* or a styleScore that is undefined or null), the returned validationScore
\* is 50.
C7_DefaultScore ==
    (genPc = "returned"
        /\ (aiResponse.reasoning # "object"
            \/ aiResponse.styleScore.kind \in {"undefined", "null"}))
        => validationScore = 50

\* a returned call whose answer had no reasoning object
C7_Witness ==
    /\ genPc = "returned"
    /\ aiResponse.reasoning = "missing"
    /\ Len(outfit) > 0
    /\ validationScore = 50

----------------------------------------------------------------------------
\* Properties of the rate limiter (SpecRate)

\* the checkRateLimit calls made for a key, in order
CallsOf(key) == SelectSeq(calls, LAMBDA c : c.key = key)

\* C8: from an empty history, the first maxRequests calls made within
\* windowMs of the first are all allowed, and the next call within that
\* window is rejected with a waitMs above 0.
C8_BurstThenReject ==
    \A key \in Keys :
        LET cs == CallsOf(key)
            config == limitConfig[key]
        IN  \A j \in 1..Len(cs) :
                cs[j].at - cs[1].at < config.windowMs =>
                    /\ j <= config.maxRequests => cs[j].allowed
                    /\ j = config.maxRequests + 1 =>
                            ~ cs[j].allowed /\ cs[j].waitMs > 0

\* a key with more than one request per window whose call number
\* maxRequests + 1 fell in the window of the first and was rejected
C8_Witness ==
    \E key \in Keys :
        LET cs == CallsOf(key)
            config == limitConfig[key]
        IN  /\ config.maxRequests > 1
            /\ Len(cs) > config.maxRequests
            /\ cs[config.maxRequests + 1].at - cs[1].at < config.windowMs
            /\ cs[config.maxRequests + 1].at > cs[1].at
            /\ ~ cs[config.maxRequests + 1].allowed
            /\ \A j \in 1..config.maxRequests : cs[j].allowed

\* C9: with the limit reached, a call at or after the oldest recorded
\* request + windowMs is allowed; a caller rejected with waitMs that is the
\* next to call for the key, exactly waitMs later, is allowed.
C9_AllowedAfterWindow ==
    \A key \in Keys :
        LET cs == CallsOf(key)
            config == limitConfig[key]
        IN  /\ \A j \in 1..Len(cs) :
                (/\ Len(cs[j].before) >= config.maxRequests
                 /\ cs[j].at >= cs[j].before[1] + config.windowMs)
                    => cs[j].allowed
            /\ \A j \in 1..(Len(cs) - 1) :
                (/\ ~ cs[j].allowed
                 /\ cs[j + 1].at = cs[j].at + cs[j].waitMs)
                    => cs[j + 1].allowed

\* a caller rejected with a wait of more than 1 that called again exactly
\* waitMs later and was allowed
C9_Witness ==
    \E key \in Keys :
        LET cs == CallsOf(key)
        IN  \E j \in 1..(Len(cs) - 1) :
                /\ ~ cs[j].allowed
                /\ cs[j].waitMs > 1
                /\ cs[j + 1].at = cs[j].at + cs[j].waitMs
                /\ cs[j + 1].allowed
                /\ Len(cs[j + 1].before) >= limitConfig[key].maxRequests

\* the allowed calls of a key whose time lies in (t - windowMs, t]
AllowedInWindow(key, t) ==
    LET cs == CallsOf(key)
    IN  {j \in 1..Len(cs) :
            /\ cs[j].allowed
            /\ cs[j].at > t - limitConfig[key].windowMs
            /\ cs[j].at <= t}

\* C10: for every key and every time t, the allowed calls whose time lies
\* in the trailing window (t - windowMs, t] are at most maxRequests.
C10_SlidingWindowBound ==
    \A key \in Keys : \A t \in 0..MaxTime :
        Cardinality(AllowedInWindow(key, t)) <= limitConfig[key].maxRequests

\* a key that was allowed more than maxRequests calls in all, with a full
\* window that started after the first of them
C10_Witness ==
    \E key \in Keys :
        LET cs == CallsOf(key)
        IN  /\ Cardinality({j \in 1..Len(cs) : cs[j].allowed}) > limitConfig[key].maxRequests
            /\ limitConfig[key].maxRequests > 1
            /\ \E t \in 0..MaxTime :
                /\ Cardinality(AllowedInWindow(key, t)) = limitConfig[key].maxRequests
                /\ t - limitConfig[key].windowMs >= cs[1].at

----------------------------------------------------------------------------
\* Error handling of the recommendation call

GenDone == genPc \in {"returned", "threw"}

\* the errors thrown by lines 364-368 on a payload that is no JSON or has no
\* selectedItemIds array
MalformedResponseError ==
    {"SyntaxError", "TypeError", "Invalid AI response format"}

PayloadMalformed ==
    \/ responseText.payload.parse # "ok"
    \/ responseText.payload.idsKind # "array"

\* C15: when the model's payload cannot be parsed as JSON, or has no
\* selectedItemIds array (missing, or not an array), the call fails with a
\* malformed-response error, the model was invoked once only (no retry) and
\* no result is returned.
C15_MalformedFails ==
    (GenDone /\ modelOutcome = "resolved" /\ PayloadMalformed)
        => /\ genPc = "threw"
           /\ genError \in MalformedResponseError
           /\ modelCalls = 1
           /\ outfit = <<>> /\ iterations = 0

C15_Witness ==
    /\ genPc = "threw"
    /\ modelOutcome = "resolved"
    /\ ~ responseText.fenced
    /\ responseText.payload.parse = "ok"
    /\ responseText.payload.idsKind = "missing"
    /\ genError = "Invalid AI response format"

\* The call as the claim C16 first states it: every call invokes the model
\* exactly once.
C16_ExactlyOnce == GenDone => modelCalls = 1

\* C16: the recommendation call does not retry and does not swallow errors:
\* a finished call has invoked the model at most once, exactly once when the
\* API key is configured and not at all when it is absent (the call then
\* fails before the invocation); and when the invocation failed, the call
\* failed with that error and returned no outfit.
C16_NoRetryNoSwallow ==
    /\ modelCalls <= 1
    /\ GenDone => (modelCalls = 1 <=> apiKeyConfigured)
    /\ (GenDone /\ modelOutcome = "rejected")
            => /\ genPc = "threw"
               /\ genError = "ExternalServiceError"
               /\ outfit = <<>> /\ iterations = 0

C16_Witness ==
    /\ genPc = "threw"
    /\ modelOutcome = "rejected"
    /\ modelCalls = 1
    /\ genError = "ExternalServiceError"

\* what the call returns for a payload once it is parsed
ExpectedOutfit(payload) ==
    EnforceLocks(FilterSelected(wardrobeItems, payload.selectedItemIds),
                 lockedItems, wardrobeItems)

\* C17: an answer whose valid JSON object, with a selectedItemIds array,
\* is wrapped in a ```json fence gives the result of the unwrapped answer:
\* the call returns, with the outfit and the score of the bare payload.
C17_FencedSameAsBare ==
    (GenDone /\ modelOutcome = "resolved" /\ responseText.fenced
        /\ ~ PayloadMalformed)
        => /\ genPc = "returned"
           /\ outfit = ExpectedOutfit(responseText.payload)
           /\ validationScore =
                normalizeStyleScore(OptionalStyleScore(responseText.payload))

\* the fenced answer has been received and the call has thrown
C17_FencedThrows ==
    /\ genPc = "threw"
    /\ modelOutcome = "resolved"
    /\ responseText.fenced
    /\ ~ PayloadMalformed
    /\ genError = "SyntaxError"

----------------------------------------------------------------------------
\* Retries of the image analysis (SpecAnalyze)

AnDone == anPc \in {"returned", "threw"}

\* attempts made: fetches issued
Attempts == Len(fetchStarts)

\* the wait before attempt i: from the call's start, or from the end of the
\* attempt before it, to the fetch of attempt i
WaitBefore(i) ==
    fetchStarts[i] - (IF i = 1 THEN 0 ELSE attemptLog[i - 1].endedAt)

\* C11: a call makes at most 3 attempts; nothing is waited before the first,
\* 1000 ms before the second and 2000 ms before the third.
C11_AttemptsAndBackoff ==
    /\ Attempts <= 3
    /\ \A i \in 1..Attempts :
        WaitBefore(i) = (CASE i = 1 -> 0 [] i = 2 -> 1000 [] OTHER -> 2000)

C11_Witness ==
    /\ Attempts = 3
    /\ WaitBefore(1) = 0 /\ WaitBefore(2) = 1000 /\ WaitBefore(3) = 2000

\* C12: an attempt that ends by the abort is the last one: the call has
\* thrown the timeout error and no fetch was issued after it; when it is the
\* first attempt, one attempt was made.
C12_TimeoutTerminal ==
    \A i \in 1..Len(attemptLog) :
        attemptLog[i].outcome = "AbortError"
            => /\ anPc = "threw"
               /\ lastError = "AI analysis timed out after 30 seconds"
               /\ Attempts = i
               /\ anResult = NoResult

C12_Witness ==
    /\ Len(attemptLog) = 1
    /\ attemptLog[1].outcome = "AbortError"
    /\ anPc = "threw"
    /\ Attempts = 1

\* C13: when attempt k succeeds after k-1 attempts that failed without a
\* timeout, the call has returned that result, k-1 retries were made (the
\* loop variable is k-1) and no fetch follows the success.
C13_SuccessAfterRetries ==
    \A k \in 1..Len(attemptLog) :
        (/\ attemptLog[k].outcome = "ok"
         /\ \A i \in 1..(k - 1) : attemptLog[i].outcome \in TransientFailures)
            => /\ k <= 3
               /\ anPc = "returned"
               /\ anResult.kind = "metadata"
               /\ attempt = k - 1
               /\ Attempts = k
               /\ Len(attemptLog) = k

C13_Witness ==
    /\ Len(attemptLog) = 2
    /\ attemptLog[1].outcome \in TransientFailures
    /\ attemptLog[2].outcome = "ok"
    /\ anPc = "returned"
    /\ attempt = 1

\* C14: when every attempt failed without a timeout, the call fails only
\* after exactly 3 attempts, with the last error and no metadata.
C14_ExhaustedFails ==
    (AnDone /\ \A i \in 1..Len(attemptLog) :
                    attemptLog[i].outcome \in TransientFailures)
        => /\ Attempts = 3
           /\ Len(attemptLog) = 3
           /\ anPc = "threw"
           /\ lastError = attemptLog[3].outcome
           /\ anResult = NoResult

C14_Witness ==
    /\ anPc = "threw"
    /\ Len(attemptLog) = 3
    /\ \A i \in 1..3 : attemptLog[i].outcome \in TransientFailures
    /\ lastError = "SyntaxError"

\* C20: with no API key, the recommendation call and the image analysis
\* both fail before any request to the model: no generateContent call and
\* no fetch, and a call that began has thrown.
C20_FailFast ==
    ~ apiKeyConfigured
        => /\ modelCalls = 0
           /\ Attempts = 0
           /\ genPc \in {"idle", "threw"}
           /\ anPc \in {"idle", "threw"}

\* the image analysis has fetched three times with no API key
C20_FetchWithoutKey ==
    /\ ~ apiKeyConfigured
    /\ Attempts = 3
    /\ anPc = "threw"
    /\ lastError = "Gemini API error"

----------------------------------------------------------------------------
\* Label normalization (SpecLabel)

lowerCased(s) == [i \in 1..Len(s) |-> charToLowerCase(s[i])]

\* the label is a word of the vocabulary, whatever its case
Recognized(value, vocabulary) ==
    /\ value.defined
    /\ \E word \in vocabulary : lowerCased(value.chars) = lowerCased(word)

\* C18: a category label that is not in the category vocabulary gives
\* detectedType "Accessory", a material label that is not in the material
\* vocabulary gives detectedMaterial "Other", and a recognized label is
\* returned title-cased.
C18_VocabularyMapping ==
    labelPc = "done"
        => LET vocabulary == IF labelIn.kind = "category"
                             THEN CategoryVocabulary ELSE MaterialVocabulary
               default == IF labelIn.kind = "category" THEN Accessory ELSE Other
           IN  labelOut = IF Recognized(labelIn.value, vocabulary)
                          THEN capitalize(labelIn.value.chars)
                          ELSE default

\* a category that is no word of the vocabulary is returned, title-cased
C18_UnrecognizedKept ==
    /\ labelPc = "done"
    /\ labelIn = [kind |-> "category", value |-> Label(<<"p", "o", "t">>)]
    /\ labelOut = <<"P", "o", "t">>

----------------------------------------------------------------------------
\* Sessions and ownership (SpecApi)

\* C19: a request without a session is answered 401 and touches no row, and
\* every row a request of user u reads, changes or deletes (clothing item,
\* outfit, outfit_items of an outfit, profile) belongs to u.
C19_SessionScoped ==
    /\ (resStatus # 0 /\ reqSession = NoSession)
            => (resStatus = 401 /\ reqAccess = {})
    /\ \A a \in reqAccess : a.owner = reqSession

\* user u has deleted the outfit_items of v's outfit, which is still there
C19_ForeignOutfitItemsDeleted ==
    /\ reqSession = "u"
    /\ Access("outfit_items", "v", "delete") \in reqAccess
    /\ resStatus = 404
    /\ 2 \in dbOutfits
    /\ 2 \notin dbOutfitItems

----------------------------------------------------------------------------
\* Wardrobe item DELETE (SpecApi)

\* C21: the image cleanup is best effort: the response of a wardrobe DELETE
\* is success exactly when the row delete returned no error, whatever the
\* cleanup did, and the cleanup is tried only after the row delete succeeded
\* and the item had an image.
C21_CleanupBestEffort ==
    /\ [](reqDelete # "none" => (resStatus = 200 <=> reqDelete = "ok"))
    /\ [](reqCleanup # "none" => reqDelete = "ok")
    /\ [][reqCleanup' # "none"
            => \E i \in dbItems \ dbItems' : ItemImage[i]]_vars

\* the row is deleted, the cleanup failed, the image is left and the answer
\* is success
C21_Witness ==
    /\ reqDelete = "ok"
    /\ reqCleanup = "failed"
    /\ resStatus = 200
    /\ 1 \notin dbItems
    /\ 1 \in storageFiles

----------------------------------------------------------------------------
\* The steps of the lock enforcement (SpecGen)

LockedIdsSet == {lockedItems[i] : i \in 1..Len(lockedItems)}

\* the selection after the first k entries of missingLockedIds were handled
SelectionAfter(k) ==
    EnforceLoop(selectedByModel, SubSeq(missingLockedIds, 1, k), 1,
                wardrobeItems, LockedIdsSet)

\* the positions of before that hold an unlocked item of the type of item
Conflicts(before, item) ==
    {i \in 1..Len(before) :
        /\ before[i].type = item.type
        /\ String(before[i].id) \notin LockedIdsSet}

\* after is before without its first conflicting item, if it has one, and
\* with item at the end
StepAsStated(before, after, item) ==
    LET conflicts == Conflicts(before, item)
    IN  IF conflicts = {}
        THEN after = Append(before, item)
        ELSE LET first == CHOOSE i \in conflicts : \A j \in conflicts : i <= j
             IN  /\ Len(after) = Len(before)
                 /\ \A j \in 1..(first - 1) : after[j] = before[j]
                 /\ \A j \in first..(Len(before) - 1) : after[j] = before[j + 1]
                 /\ after[Len(after)] = item

\* the scenario of the specification: no Top was selected
ScenarioWardrobe ==
    <<[id |-> 1, type |-> "Top"], [id |-> 2, type |-> "Bottom"],
      [id |-> 3, type |-> "Footwear"]>>

ScenarioResult ==
    EnforceLocks(FilterSelected(ScenarioWardrobe, <<"2", "3">>), <<"1">>,
                 ScenarioWardrobe)

\* C22: each missing locked id found in the wardrobe, in the order of
\* lockedItems, removes exactly the first unlocked item of its type from the
\* selection, if there is one, and is appended at the end; otherwise it is
\* appended and nothing is removed.  The returned outfit is the selection
\* after the last step, and the scenario's result is ["2","3","1"].
C22_EnforcementStep ==
    /\ genPc = "returned" =>
        /\ outfit = SelectionAfter(Len(missingLockedIds))
        /\ missingLockedIds =
            SelectSeq(lockedItems, LAMBDA id :
                \A j \in 1..Len(selectedByModel) : String(selectedByModel[j].id) # id)
        /\ \A k \in 1..Len(missingLockedIds) :
            LET before == SelectionAfter(k - 1)
                after == SelectionAfter(k)
            IN  IF InWardrobe(missingLockedIds[k])
                THEN StepAsStated(before, after,
                        wardrobeItems[FindItem(wardrobeItems, missingLockedIds[k])])
                ELSE after = before
    /\ ScenarioResult = <<ScenarioWardrobe[2], ScenarioWardrobe[3], ScenarioWardrobe[1]>>

\* two unlocked Tops were selected and a locked Top was missed: the first
\* Top is gone, the second stays and the locked one is last
C22_Witness ==
    /\ genPc = "returned"
    /\ Len(selectedByModel) = 2
    /\ selectedByModel[1].type = "Top" /\ selectedByModel[2].type = "Top"
    /\ Len(missingLockedIds) = 1
    /\ InWardrobe(missingLockedIds[1])
    /\ Conflicts(selectedByModel, wardrobeItems[FindItem(wardrobeItems, missingLockedIds[1])])
            = {1, 2}
    /\ outfit = <<selectedByModel[2],
                  wardrobeItems[FindItem(wardrobeItems, missingLockedIds[1])]>>

\* C23: an item whose id is in lockedItems and that is in the selection,
\* chosen by the model or appended by an earlier step, is in the returned
\* outfit, as often as it was in the selection; no step removes it.
C23_LockedNeverRemoved ==
    genPc = "returned" =>
        \A k \in 0..Len(missingLockedIds) :
            LET selection == SelectionAfter(k)
            IN  \A j \in 1..Len(selection) :
                    LET item == selection[j]
                        count(sel) == Cardinality({i \in 1..Len(sel) : sel[i] = item})
                    IN  String(item.id) \in LockedIdsSet
                            => /\ InOutfit(String(item.id))
                               /\ count(outfit) >= count(selection)

\* two locked items of one type, one chosen by the model and one missed,
\* with an unlocked item of another type: both locked items are returned
C23_Witness ==
    /\ genPc = "returned"
    /\ Len(lockedItems) = 2 /\ lockedItems[1] # lockedItems[2]
    /\ InWardrobe(lockedItems[1]) /\ InWardrobe(lockedItems[2])
    /\ wardrobeItems[FindItem(wardrobeItems, lockedItems[1])].type
        = wardrobeItems[FindItem(wardrobeItems, lockedItems[2])].type
    /\ Len(missingLockedIds) = 1
    /\ Len(selectedByModel) = 1
    /\ String(selectedByModel[1].id) \in LockedIdsSet
    /\ InOutfit(lockedItems[1]) /\ InOutfit(lockedItems[2])

----------------------------------------------------------------------------
\* The completeness check and the returned items (SpecGen)

\* no item of the outfit has a type among the aliases, whatever its case
NoneOfAliases(aliases) ==
    \A i \in 1..Len(outfit) : toLowerCase(outfit[i].type) \notin aliases

Incomplete == NoneOfAliases(TopAliases) \/ NoneOfAliases(BottomAliases)

\* C24: the completeness check is soft: an outfit with no top or no bottom
\* is returned all the same, with the selection the lock enforcement left,
\* the normalized score and iterations = 1; the one effect of the check is
\* the warning line in analysisLog, present exactly when the outfit is
\* incomplete.  A well-formed answer never makes the call fail.
C24_SoftCompleteness ==
    /\ genPc = "returned" =>
        /\ outfit = SelectionAfter(Len(missingLockedIds))
        /\ validationScore = normalizeStyleScore(OptionalStyleScore(aiResponse))
        /\ iterations = 1
        /\ Incomplete <=> includes(analysisLog, "incomplete")
        /\ SelectSeq(analysisLog, LAMBDA line : line # "incomplete")
            = <<"start", "generating">>
              \o (IF Len(missingLockedIds) > 0 THEN <<"enforcing">> ELSE <<>>)
              \o <<"score", "items">>
    /\ (GenDone /\ modelOutcome = "resolved" /\ ~ responseText.fenced
            /\ ~ PayloadMalformed) => genPc = "returned"

\* an outfit of Tops alone is returned with the warning
C24_Witness ==
    /\ genPc = "returned"
    /\ Len(outfit) = 2
    /\ NoneOfAliases(BottomAliases)
    /\ ~ NoneOfAliases(TopAliases)
    /\ includes(analysisLog, "incomplete")
    /\ iterations = 1

\* the ids of the list that some wardrobe item has
Known(ids) == SelectSeq(ids, LAMBDA id : InWardrobe(id))

\* C25: every item of the returned outfit is an item of wardrobeItems, and
\* the ids that match no wardrobe item, in the model's selectedItemIds or in
\* lockedItems, add nothing and remove nothing: the outfit is the one the
\* call gives for the same lists without these ids.
C25_OnlyWardrobeItems ==
    genPc = "returned" =>
        /\ \A j \in 1..Len(outfit) :
            \E i \in 1..Len(wardrobeItems) : outfit[j] = wardrobeItems[i]
        /\ outfit = EnforceLocks(
                        FilterSelected(wardrobeItems, Known(aiResponse.selectedItemIds)),
                        Known(lockedItems), wardrobeItems)

\* the model and the caller both named an id no item has; an item was
\* selected and a locked one enforced
C25_Witness ==
    /\ genPc = "returned"
    /\ aiResponse.idsKind = "array"
    /\ \E i \in 1..Len(aiResponse.selectedItemIds) :
            ~ InWardrobe(aiResponse.selectedItemIds[i])
    /\ Len(lockedItems) = 2
    /\ ~ InWardrobe(lockedItems[1])
    /\ InWardrobe(lockedItems[2])
    /\ missingLockedIds = lockedItems
    /\ Len(selectedByModel) = 1
    /\ Len(outfit) = 1

NoRepeats(seq) == \A i, j \in 1..Len(seq) : seq[i] = seq[j] => i = j

\* C26: with distinct wardrobe ids and no id repeated in lockedItems the
\* returned outfit holds no wardrobe item twice, also when the model
\* repeated an id in selectedItemIds.
C26_NoDuplicateItems ==
    (/\ genPc = "returned"
     /\ NoRepeats([i \in 1..Len(wardrobeItems) |-> wardrobeItems[i].id])
     /\ NoRepeats(lockedItems))
        => NoRepeats(outfit)

\* the model repeated an id and missed one of two locked ids
C26_Witness ==
    /\ genPc = "returned"
    /\ aiResponse.idsKind = "array"
    /\ ~ NoRepeats(aiResponse.selectedItemIds)
    /\ Len(lockedItems) = 2 /\ NoRepeats(lockedItems)
    /\ Len(missingLockedIds) = 1
    /\ Len(outfit) = 3
    /\ NoRepeats(outfit)

----------------------------------------------------------------------------
\* What a checkRateLimit call records (SpecRate)

\* how often the timestamp t is in the history
Occurrences(requests, t) == Cardinality({i \in 1..Len(requests) : requests[i] = t})

\* the first time from t on at which a call for the history would be below
\* the limit
EarliestAllowed(requests, config, t) ==
    CHOOSE u \in t..(t + config.windowMs) :
        /\ Cardinality({i \in 1..Len(requests) : requests[i] > u - config.windowMs})
                < config.maxRequests
        /\ \A v \in t..(u - 1) :
            Cardinality({i \in 1..Len(requests) : requests[i] > v - config.windowMs})
                >= config.maxRequests

\* the step is a checkRateLimit call; its record is the last of calls'
IsCall == Len(calls') = Len(calls) + 1

\* a rejected call adds no timestamp and leaves the time of the next
\* allowed call where it was
RejectedRecordsNothing ==
    LET c == calls'[Len(calls')]
        before == RequestsOf(rateLimiters, c.key)
        after == RequestsOf(rateLimiters', c.key)
    IN  ~ c.allowed =>
            /\ \A t \in 0..MaxTime : Occurrences(after, t) <= Occurrences(before, t)
            /\ EarliestAllowed(after, limitConfig[c.key], now)
                = EarliestAllowed(before, limitConfig[c.key], now)

\* an allowed call appends its own time, once, and nothing else
AllowedRecordsOnce ==
    LET c == calls'[Len(calls')]
        before == RequestsOf(rateLimiters, c.key)
        after == RequestsOf(rateLimiters', c.key)
    IN  c.allowed =>
            /\ after[Len(after)] = now
            /\ Occurrences(after, now) = Occurrences(before, now) + 1
            /\ \A t \in 0..MaxTime :
                t # now => Occurrences(after, t) <= Occurrences(before, t)

\* the histories of the other keys are as before
OtherKeysUntouched ==
    LET c == calls'[Len(calls')]
    IN  \A k \in Keys \ {c.key} :
            /\ k \in DOMAIN rateLimiters' <=> k \in DOMAIN rateLimiters
            /\ RequestsOf(rateLimiters', k) = RequestsOf(rateLimiters, k)

\* C27: a rejected checkRateLimit call adds no timestamp for its key, so it
\* uses up no quota and does not move the time at which the next call is
\* allowed; an allowed call appends one timestamp, its own; and no call
\* changes the history of another key.
C27_RejectedRecordsNothing ==
    [][IsCall => /\ RejectedRecordsNothing
                 /\ AllowedRecordsOnce
                 /\ OtherKeysUntouched]_vars

\* two rejected calls at different times, then a call at the time the
\* first rejection named, which is allowed
C27_Witness ==
    \E key \in Keys :
        LET cs == CallsOf(key)
        IN  /\ Len(cs) >= 3
            /\ \E j \in 1..(Len(cs) - 2) :
                /\ ~ cs[j].allowed /\ ~ cs[j + 1].allowed
                /\ cs[j + 1].at > cs[j].at
                /\ cs[j + 2].allowed
                /\ cs[j + 2].at = cs[j].at + cs[j].waitMs

----------------------------------------------------------------------------
\* Callers of waitForRateLimit on one key (SpecWait, SpecWaitFair)

\* the callers whose promise resolved in the window of windowMs ending at t
ResolvedInWindow(t) ==
    {w \in Waiters :
        /\ waitPc[w] = "resolved"
        /\ resolvedAt[w] > t - limitConfig[WaitKey].windowMs
        /\ resolvedAt[w] <= t}

\* the step resolves w's promise
Resolves(w) == waitPc[w] # "resolved" /\ waitPc'[w] = "resolved"

\* the step's checkRateLimit call was allowed and pushed its timestamp
AllowedAndRecorded ==
    LET before == RequestsOf(rateLimiters, WaitKey)
        after == RequestsOf(rateLimiters', WaitKey)
    IN  /\ ~ AtLimit(Unexpired(before, now - limitConfig[WaitKey].windowMs),
                     limitConfig[WaitKey])
        /\ Len(after) > 0
        /\ after[Len(after)] = now
        /\ Occurrences(after, now) = Occurrences(before, now) + 1

\* C28: with concurrent waitForRateLimit callers on one key, a caller
\* resolves only in a step in which its own checkRateLimit call was allowed
\* and recorded, and the callers that resolve within any trailing window of
\* windowMs never exceed maxRequests.
C28_ResolvesWithinLimit ==
    /\ [][\A w \in Waiters : Resolves(w) => AllowedAndRecorded]_vars
    /\ [](\A t \in 0..WaitHorizon :
            Cardinality(ResolvedInWindow(t)) <= limitConfig[WaitKey].maxRequests)

\* every caller has resolved, each one a window after the other, the later
\* ones after having slept
C28_Witness ==
    /\ limitConfig[WaitKey].maxRequests = 1
    /\ \A w \in Waiters : waitPc[w] = "resolved"
    /\ \E w \in Waiters : resolvedAt[w] = wakeAt[w] /\ wakeAt[w] > 0
    /\ \A v, w \in Waiters :
        v # w => \/ resolvedAt[v] >= resolvedAt[w] + limitConfig[WaitKey].windowMs
                 \/ resolvedAt[w] >= resolvedAt[v] + limitConfig[WaitKey].windowMs

\* C29: with a clock that keeps advancing and timers that are run, every
\* caller of waitForRateLimit that has to wait resolves in the end, however
\* the other callers interleave with it.
C29_EveryWaiterResolves ==
    \A w \in Waiters : (waitPc[w] = "sleeping") ~> (waitPc[w] = "resolved")

\* a caller that was turned away twice, the second time because another
\* caller took the slot it had waited for, has resolved
C29_Witness ==
    \E w \in Waiters :
        /\ waitPc[w] = "resolved"
        /\ limitConfig[WaitKey].maxRequests = 1
        /\ resolvedAt[w] = wakeAt[w]
        /\ resolvedAt[w] >= 2 * limitConfig[WaitKey].windowMs
        /\ \A v \in Waiters \ {w} :
            waitPc[v] = "resolved" /\ resolvedAt[v] < resolvedAt[w]

----------------------------------------------------------------------------
\* Settling of uploadWithProgress (SpecUpload)

\* C30: the promise of uploadWithProgress settles once: resolve is called at
\* most once, the promise holds the result of the first abort, error or load
\* event from that event on, later events do not change it, and a signal
\* aborted at call time gives 'Upload aborted' without the request being
\* sent.
C30_SettlesOnce ==
    /\ [](resolveCalls <= 1)
    /\ [](Len(upEvents) > 0 =>
            /\ promiseState = "fulfilled"
            /\ resolveCalls = 1
            /\ promiseValue = upEvents[1].result)
    /\ [](abortedAtCall =>
            /\ promiseState = "fulfilled"
            /\ promiseValue = UploadAborted
            /\ xhrState = "unsent"
            /\ upEvents = <<>>)
    /\ [][promiseState = "fulfilled" =>
            /\ promiseState' = "fulfilled"
            /\ promiseValue' = promiseValue]_vars

\* the signal was aborted after a successful load: two events, one result
C30_Witness ==
    /\ Len(upEvents) = 2
    /\ upEvents[1].kind = "load"
    /\ upEvents[2].kind = "abort"
    /\ promiseValue.success
    /\ resolveCalls = 1

====
